---- MODULE Spec2Model ----
(***************************************************************************)
(* A model of the discovery-to-processing pipeline of news_search:        *)
(* the State Store (database.py), the Processing Engine                   *)
(* (processor_worker.py), the Orchestrator (search_module.py) and the URL *)
(* Canonicalizer (url_normalizer.py).                                      *)
(*                                                                         *)
(* A URL string is modelled by its urlparse() components: netloc is the   *)
(* sequence of the host's dot-separated labels, path the sequence of the  *)
(* segments that follow each "/".  Every State Store method is one        *)
(* transaction and therefore one atomic step; a Content Processor call    *)
(* has a start and a return; time.sleep() ends at any moment at or after  *)
(* its deadline.  Each engine e is one ProcessorWorker object in a        *)
(* process of its own (the repository's scripts build one per process),   *)
(* so invocations of one engine follow one another and invocations of     *)
(* different engines overlap.                                              *)
(***************************************************************************)
EXTENDS Integers, Sequences, FiniteSets, TLC

\* ---------------------------------------------------------------- bounds

\* Links already registered (pending) when the engine starts.
MaxLinks == 3
\* State Store calls that raise in one behaviour.
MaxStoreFaults == 1
\* Ids one processSpecific call is given.
MaxSpecific == 2
\* Invocations started, over all engines, in the specifications that allow
\* several.
MaxInvocations == 2
\* Links in the store of the specifications with several invocations.
MaxLinksMulti == 2
\* Links in the store of the timed specification, and its clock's range.
MaxLinksTimed == 3
MaxTime == 4
\* Links, each of a domain of its own, in the store of the pool's
\* specification.
MaxPoolLinks == 4
\* URLs one search returns.
MaxUrls == 2
\* URLs one search returns in the specification of the raw forms.
MaxVariants == 4
\* Slashes at the end of a path in the specification of normalize_url.
MaxSlashes == 2

\* ---------------------------------------------------- program constants

SAME_DOMAIN_DELAY == 3
MAX_CONCURRENT_DOMAINS == 3
MAX_RETRIES == 2
AUTO_PROCESS_AFTER_SEARCH == TRUE

Engines == {1, 2}

\* The Orchestrator's runs, each a process of its own with its own
\* NewsSearchModule.
Runs == {1, 2}

\* The ProcessorWorker a run's NewsSearchModule is built with: run 1 has
\* engine 1, run 2 has none (0).
Worker(r) == IF r = 1 THEN 1 ELSE 0

\* What str(e) is for an exception raised by the State Store.
StoreError == "store_error"

\* ------------------------------------------------------------------ URLs

Url(scheme, netloc, path) ==
    [scheme |-> scheme, netloc |-> netloc, path |-> path,
     query |-> <<>>, fragment |-> ""]

\* The same with a query, a sequence of <<key, value>> pairs, and a fragment.
UrlQ(scheme, netloc, path, query, fragment) ==
    [scheme |-> scheme, netloc |-> netloc, path |-> path,
     query |-> query, fragment |-> fragment]

\* Canonical URLs as runTask stores them, in the order of their discovery:
\* two hosts by turns.
StoredUrls ==
    << Url("http", <<"a", "com">>, <<"1">>),
       Url("http", <<"b", "com">>, <<"1">>),
       Url("http", <<"a", "com">>, <<"2">>),
       Url("http", <<"b", "com">>, <<"2">>),
       Url("http", <<"a", "com">>, <<"3">>),
       Url("http", <<"b", "com">>, <<"3">>) >>

\* The same of hosts that all differ.
PoolUrls ==
    << Url("http", <<"a", "com">>, <<"1">>),
       Url("http", <<"b", "com">>, <<"1">>),
       Url("http", <<"c", "com">>, <<"1">>),
       Url("http", <<"d", "com">>, <<"1">>),
       Url("http", <<"e", "com">>, <<"1">>),
       Url("http", <<"f", "com">>, <<"1">>) >>

\* Canonical URLs of hosts that differ in a www. label inside the host.
HostUrls ==
    << Url("http", <<"x", "www", "a", "com">>, <<"1">>),
       Url("http", <<"x", "a", "com">>, <<"1">>),
       Url("http", <<"a", "com">>, <<"1">>),
       Url("http", <<"x", "a", "com">>, <<"2">>) >>

\* str.lower() on the labels the model uses.
Lower(s) ==
    CASE s = "WWW" -> "www"
      [] s = "A" -> "a"
      [] s = "COM" -> "com"
      [] s = "HTTP" -> "http"
      [] OTHER -> s

LowerAll(labels) == [i \in 1..Len(labels) |-> Lower(labels[i])]

\* str.replace('www.', '') on a host given by its labels: every label "www"
\* that a dot follows goes, wherever it stands in the host.  (No other
\* label of the model ends in "www".)
RECURSIVE ReplaceWww(_)
ReplaceWww(labels) ==
    IF Len(labels) <= 1 THEN labels
    ELSE IF Head(labels) = "www" THEN ReplaceWww(Tail(labels))
    ELSE <<Head(labels)>> \o ReplaceWww(Tail(labels))

extract_domain(url) == ReplaceWww(LowerAll(url.netloc))

tracking_params ==
    {"utm_source", "utm_medium", "utm_campaign", "utm_term", "utm_content",
     "fbclid", "gclid", "msclkid", "mc_cid", "mc_eid",
     "_ga", "_gl", "ref", "source"}

\* str.rstrip('/') on a path given by its segments: the empty segments at
\* its end go.
RECURSIVE RStripSlash(_)
RStripSlash(path) ==
    IF path # <<>> /\ path[Len(path)] = ""
    THEN RStripSlash(SubSeq(path, 1, Len(path) - 1))
    ELSE path

\* urlencode(..., doseq=True) of the dict parse_qs() gives, less the
\* tracking parameters: parse_qs drops the pairs of blank value and keeps
\* one key per name, in the order the names first appear, with the name's
\* values in their order.
RECURSIVE EncodeGroups(_, _)
EncodeGroups(pairs, seen) ==
    IF pairs = <<>> THEN <<>>
    ELSE IF Head(pairs)[1] \in seen THEN EncodeGroups(Tail(pairs), seen)
    ELSE SelectSeq(pairs, LAMBDA kv : kv[1] = Head(pairs)[1])
            \o EncodeGroups(Tail(pairs), seen \cup {Head(pairs)[1]})

FilterQuery(query) ==
    EncodeGroups(SelectSeq(query, LAMBDA kv : kv[2] # ""), tracking_params)

normalize_url(url) ==
    [scheme |-> IF url.scheme # "" THEN Lower(url.scheme) ELSE "https",
     netloc |-> LET netloc == LowerAll(url.netloc)
                IN  IF Len(netloc) >= 2 /\ netloc[1] = "www"
                    THEN Tail(netloc) ELSE netloc,
     path |-> IF url.path # <<"">> THEN RStripSlash(url.path) ELSE url.path,
     query |-> FilterQuery(url.query),
     fragment |-> ""]

is_valid_url(url) == url.scheme # "" /\ url.netloc # <<>>

\* hashlib.sha256 of the URL: no two URLs of the model collide.
hash_url(url) == <<"sha256", url>>

\* What a search may return: the canonical form of StoredUrls[1], a raw form
\* of it, another site's article, and text that is no URL with a host.
RawUrls ==
    { Url("http", <<"a", "com">>, <<"1">>),
      UrlQ("HTTP", <<"WWW", "A", "COM">>, <<"1", "">>,
           << <<"utm_source", "x">> >>, "top"),
      Url("http", <<"b", "com">>, <<"1">>),
      Url("", <<>>, <<"1">>) }

\* --------------------------------------------------------------- state

VARIABLES
    news_links,            \* the news_links table: row id = index
    processed_content,     \* the processed_content table: a set of rows
    query_tasks,           \* the query_tasks table: task_name -> row
    store_faults,          \* history: State Store calls that have raised
    now,                   \* time.time()
    domain_last_request,   \* per engine: the dict domain -> time
    inv_pc,                \* per engine: "idle", "running", "returned"
    inv_no,                \* per engine: invocations started so far
    inv_input,             \* per engine: ids of the links fetched
    part,                  \* per engine: the partitions, in submission order
    stats,                 \* per engine: what the invocation returned
    call_log,              \* history, per engine: domain -> start of its latest
                           \* Content Processor call
    dispatch_log,          \* history, per engine: domain -> the moment its
                           \* latest rate-limit wait ended
    run,                   \* per run of the Orchestrator: its position, locals
                           \* and result
    save_log,              \* history: link id -> the payloads that the
                           \* save_processed_content calls for it stored
    inv_limit              \* history, per engine: the limit the invocation
                           \* in progress was given (0: none, or ids given)

vars == << news_links, processed_content, query_tasks, store_faults, now,
           domain_last_request, inv_pc, inv_no, inv_input, part, stats,
           call_log, dispatch_log, run, save_log, inv_limit >>

store == << news_links, processed_content, query_tasks >>

\* ------------------------------------------------------- sequence helpers

Range(s) == {s[i] : i \in 1..Len(s)}

RECURSIVE SumSeq(_)
SumSeq(s) == IF s = <<>> THEN 0 ELSE Head(s) + SumSeq(Tail(s))

\* The sequences that list each element of the finite set S once.
Perms(S) ==
    {s \in [1..Cardinality(S) -> S] : \A x \in S : \E i \in DOMAIN s : s[i] = x}

\* The ids of S in descending order.
RECURSIVE Descending(_)
Descending(S) ==
    IF S = {} THEN <<>>
    ELSE LET m == CHOOSE x \in S : \A y \in S : y <= x
         IN  <<m>> \o Descending(S \ {m})

\* The numbers of S in ascending order.
RECURSIVE Ascending(_)
Ascending(S) ==
    IF S = {} THEN <<>>
    ELSE LET m == CHOOSE x \in S : \A y \in S : x <= y
         IN  <<m>> \o Ascending(S \ {m})

Take(s, n) == SubSeq(s, 1, IF n < Len(s) THEN n ELSE Len(s))

\* Raw forms a search may return: a page, the same page with upper case,
\* a leading www., a trailing slash, a tracking parameter and a fragment,
\* the same with the tracking parameter alone, a site's root without and
\* with its slash, another site's page, and text that is no URL.
VariantUrls ==
    { Url("http", <<"a", "com">>, <<"1">>),
      UrlQ("HTTP", <<"WWW", "A", "COM">>, <<"1", "">>,
           << <<"utm_source", "x">> >>, "top"),
      UrlQ("http", <<"a", "com">>, <<"1">>, << <<"utm_source", "x">> >>, ""),
      Url("http", <<"a", "com">>, <<>>),
      Url("http", <<"a", "com">>, <<"">>),
      Url("http", <<"b", "com">>, <<"2">>),
      Url("", <<>>, <<"not a url">>) }

\* URLs built from component sets: scheme and host in either case, hosts
\* with one and two leading www. labels, the root and a page path with up to
\* MaxSlashes slashes at the end, queries with a tracking parameter, a
\* repeated key and a blank value, with and without a fragment.
NormSchemes == {"http", "HTTP"}

NormHosts == {<<"a", "com">>, <<"WWW", "A", "COM">>, <<"www", "www", "a", "com">>}

NormPaths ==
    {<<>>} \cup {[i \in 1..n |-> ""] : n \in 1..MaxSlashes}
           \cup {<<"1">> \o [i \in 1..n |-> ""] : n \in 0..MaxSlashes}

NormQueries ==
    { <<>>,
      << <<"utm_source", "x">>, <<"id", "7">> >>,
      << <<"b", "1">>, <<"a", "2">>, <<"b", "3">> >>,
      << <<"a", "">>, <<"id", "7">> >> }

NormFragments == {"", "frag"}

NormUrls ==
    {UrlQ(sc, h, pa, q, f) : sc \in NormSchemes, h \in NormHosts, pa \in NormPaths,
                             q \in NormQueries, f \in NormFragments}

\* ----------------------------------------------------------- State Store

LinkIds == 1..Len(news_links)

NewLink(url, task) ==
    [url |-> url, url_hash |-> hash_url(url), source_task |-> task,
     status |-> "pending", error_message |-> ""]

\* UPDATE news_links SET status, error_message WHERE id: the error message
\* is written on every call, None (here "") when the caller gives none.
update_link_status(link_id, status, error_message) ==
    [news_links EXCEPT ![link_id] =
        [@ EXCEPT !.status = status, !.error_message = error_message]]

\* INSERT ... ON CONFLICT (link_id) DO NOTHING.
save_processed_contentKeep(link_id, payload) ==
    IF \E r \in processed_content : r.link_id = link_id
    THEN processed_content
    ELSE processed_content \cup {[link_id |-> link_id, payload |-> payload]}

\* A save that stores nothing.
save_processed_contentNone(link_id, payload) == processed_content

\* INSERT ... ON CONFLICT (link_id) DO UPDATE.
save_processed_content(link_id, payload) ==
    {r \in processed_content : r.link_id # link_id}
        \cup {[link_id |-> link_id, payload |-> payload]}

\* The same query with no WHERE clause.
get_pending_linksAnyStatus(limit) == Take(Descending(LinkIds), limit)

\* The same query with ORDER BY discovered_at ASC.
get_pending_linksAscending(limit) ==
    Take(Ascending({id \in LinkIds : news_links[id].status = "pending"}), limit)

\* SELECT ... WHERE status = 'pending' ORDER BY discovered_at DESC LIMIT.
get_pending_links(limit) ==
    Take(Descending({id \in LinkIds : news_links[id].status = "pending"}), limit)

\* SELECT ... WHERE id = ANY(ids): the rows that exist, whatever their status.
get_links_by_ids(ids) == {id \in LinkIds : id \in ids}

\* SELECT 1 FROM news_links WHERE url_hash = ...
url_exists(url_hash) == \E id \in LinkIds : news_links[id].url_hash = url_hash

\* An INSERT with no ON CONFLICT clause and no unique index to stop it.
insert_news_linkNoConflict(url, url_hash, source_task) ==
    [table |-> Append(news_links, NewLink(url, source_task)),
     id |-> Len(news_links) + 1]

\* INSERT ... ON CONFLICT (url_hash) DO UPDATE SET source_task RETURNING id.
insert_news_linkTakeOver(url, url_hash, source_task) ==
    IF url_exists(url_hash)
    THEN LET id == CHOOSE x \in LinkIds : news_links[x].url_hash = url_hash
         IN  [table |-> [news_links EXCEPT ![id].source_task = source_task],
              id |-> id]
    ELSE [table |-> Append(news_links, NewLink(url, source_task)),
          id |-> Len(news_links) + 1]

\* INSERT ... ON CONFLICT (url_hash) DO NOTHING RETURNING id, one statement
\* under the UNIQUE index on url_hash: the table after it and the id it
\* returns, None (here 0) when a row of the hash is there.
insert_news_link(url, url_hash, source_task) ==
    IF url_exists(url_hash)
    THEN [table |-> news_links, id |-> 0]
    ELSE [table |-> Append(news_links, NewLink(url, source_task)),
          id |-> Len(news_links) + 1]

\* An update that writes the run's count over the total.
update_task_run_statsOverwrite(task_name, links_found) ==
    [query_tasks EXCEPT ![task_name] =
        [@ EXCEPT !.total_runs = @ + 1, !.total_links_found = links_found]]

\* UPDATE query_tasks SET total_runs = total_runs + 1,
\* total_links_found = total_links_found + links_found WHERE task_name.
update_task_run_stats(task_name, links_found) ==
    [query_tasks EXCEPT ![task_name] =
        [@ EXCEPT !.total_runs = @ + 1,
                  !.total_links_found = @ + links_found]]

\* -------------------------------------------------- Processing Engine

\* One partition of an invocation: a domain, its links, and the position of
\* the pool task that runs _process_domain on it.  state is the future's
\* ("queued", "running", "done", "raised"); i, pc, attempt, exc, payload and
\* wake are the locals of _process_domain and _process_single_link; success
\* and failed are its stats.  The rest is history: ncalls and last_err, the
\* calls made for the current link and the error of the latest; oks, how
\* many of those calls answered with a success; all_raise
\* and all_ok, whether every answer so far was an exception, or a success;
\* ended, a record per link the task is through with ("ok", "failed", or
\* "raised" when an exception left _process_single_link, "unmarked" when
\* the link never got as far as _process_single_link).
NewPart(g) ==
    [domain |-> g.domain, links |-> g.links, state |-> "queued", i |-> 1,
     pc |-> "-", attempt |-> 0, exc |-> "", payload |-> "", wake |-> 0,
     success |-> 0, failed |-> 0,
     ncalls |-> 0, last_err |-> "", oks |-> 0, all_raise |-> TRUE,
     all_ok |-> TRUE, ended |-> <<>>]

\* One group per link: what submitting a pool task per link would give.
_group_by_domainPerLink(ids) ==
    [k \in DOMAIN ids |->
        [domain |-> extract_domain(news_links[ids[k]].url), links |-> <<ids[k]>>]]

\* groups[domain].append(link) for each link in turn: the groups stand in
\* the order their domains first appear (dict order), each keeping the
\* order of the links given.
_group_by_domain(ids) ==
    LET dom(id) == extract_domain(news_links[id].url)
        first == Ascending({i \in DOMAIN ids :
                              \A j \in 1..(i - 1) : dom(ids[j]) # dom(ids[i])})
    IN  [k \in DOMAIN first |->
            [domain |-> dom(ids[first[k]]),
             links |-> SelectSeq(ids, LAMBDA id : dom(id) = dom(ids[first[k]]))]]

NoStats == [total |-> 0, success |-> 0, failed |-> 0, skipped |-> 0,
            by_domain |-> <<>>]

PartStats(p) ==
    [total |-> Len(p.links), success |-> p.success, failed |-> p.failed,
     skipped |-> 0]

CurrentLink(p) == p.links[p.i]

SetPart(e, k, p) == part' = [part EXCEPT ![e][k] = p]

At(e, k, pc) ==
    /\ inv_pc[e] = "running"
    /\ k \in DOMAIN part[e]
    /\ part[e][k].state = "running"
    /\ part[e][k].pc = pc

\* The except branch of _process_single_link, entered with exception err.
\* An exception leaves _process_domain: the future holds it.
Raised(p) ==
    [p EXCEPT !.state = "raised", !.pc = "-", !.attempt = 0, !.exc = "",
              !.payload = "", !.wake = 0, !.ncalls = 0, !.last_err = "",
              !.oks = 0,
              !.ended = Append(@, [how |-> IF p.pc = "mark" THEN "unmarked"
                                           ELSE "raised",
                                   calls |-> p.ncalls, oks |-> p.oks,
                                   err |-> StoreError])]

\* The except branch giving up at the first exception.
HandleFirstAttempt(p, err) ==
    [p EXCEPT !.pc = "markfailed", !.exc = err, !.payload = ""]

\* The except branch raising again after the last attempt.
HandleReraise(p, err) ==
    IF p.attempt = MAX_RETRIES
    THEN Raised(p)
    ELSE [p EXCEPT !.pc = "backoff", !.wake = now + 2 ^ p.attempt,
                   !.payload = ""]

Handle(p, err) ==
    IF p.attempt = MAX_RETRIES
    THEN [p EXCEPT !.pc = "markfailed", !.exc = err, !.payload = ""]
    ELSE [p EXCEPT !.pc = "backoff", !.wake = now + 2 ^ p.attempt,
                   !.payload = ""]

\* _process_single_link has returned ok: _process_domain counts it and goes
\* on to its next link, or returns its stats.
Finish(p, ok) ==
    LET q == [p EXCEPT !.success = IF ok THEN @ + 1 ELSE @,
                       !.failed = IF ok THEN @ ELSE @ + 1,
                       !.attempt = 0, !.exc = "", !.payload = "", !.wake = 0,
                       !.ncalls = 0, !.last_err = "", !.oks = 0,
                       !.ended = Append(@, [how |-> IF ok THEN "ok" ELSE "failed",
                                            calls |-> p.ncalls, oks |-> p.oks,
                                            err |-> p.last_err])]
    IN  IF p.i = Len(p.links)
        THEN [q EXCEPT !.state = "done", !.pc = "-"]
        ELSE [q EXCEPT !.i = @ + 1, !.pc = "rate"]

Submit(e, ids) ==
    /\ inv_input' = [inv_input EXCEPT ![e] = ids]
    /\ inv_no' = [inv_no EXCEPT ![e] = @ + 1]
    /\ IF ids = <<>>
       THEN /\ inv_pc' = [inv_pc EXCEPT ![e] = "returned"]
            /\ part' = [part EXCEPT ![e] = <<>>]
            /\ stats' = [stats EXCEPT ![e] = NoStats]
       ELSE /\ inv_pc' = [inv_pc EXCEPT ![e] = "running"]
            /\ part' = [part EXCEPT ![e] =
                 LET g == _group_by_domain(ids)
                 IN  [k \in DOMAIN g |-> NewPart(g[k])]]
            /\ UNCHANGED stats
    /\ UNCHANGED << store, store_faults, now, domain_last_request, call_log,
                    dispatch_log, run, save_log >>

process_pending_links(e, limit) ==
    /\ inv_pc[e] # "running"
    /\ Submit(e, get_pending_links(limit))
    /\ inv_limit' = [inv_limit EXCEPT ![e] = limit]

process_specific_links(e, link_ids) ==
    /\ inv_pc[e] # "running"
    /\ \E ids \in Perms(get_links_by_ids(link_ids)) : Submit(e, ids)
    /\ inv_limit' = [inv_limit EXCEPT ![e] = 0]

\* A pool with a thread for every task.
PoolSizeUnbounded == MAX_CONCURRENT_DOMAINS + MaxPoolLinks

PoolSize == MAX_CONCURRENT_DOMAINS

\* A pool thread takes the oldest queued task; the pool has PoolSize
\* threads.
StartPartition(e, k) ==
    /\ inv_pc[e] = "running"
    /\ k \in DOMAIN part[e]
    /\ part[e][k].state = "queued"
    /\ \A j \in 1..(k - 1) : part[e][j].state # "queued"
    /\ Cardinality({j \in DOMAIN part[e] : part[e][j].state = "running"})
          < PoolSize
    /\ SetPart(e, k, [part[e][k] EXCEPT !.state = "running", !.pc = "rate"])
    /\ UNCHANGED << store, store_faults, now, domain_last_request, inv_pc,
                    inv_no, inv_input, stats, call_log,
                    dispatch_log, run, save_log,
                    inv_limit >>

\* _apply_rate_limit up to its sleep: the deadline of the sleep.
RateDeadlineNone(last, d) == now

RateDeadline(last, d) ==
    IF d \in DOMAIN last /\ now - last[d] < SAME_DOMAIN_DELAY
    THEN now + (SAME_DOMAIN_DELAY - (now - last[d]))
    ELSE now

RateLimitBegin(e, k) ==
    /\ At(e, k, "rate")
    /\ SetPart(e, k, [part[e][k] EXCEPT
          !.pc = "stamp",
          !.wake = RateDeadline(domain_last_request[e], part[e][k].domain)])
    /\ UNCHANGED << store, store_faults, now, domain_last_request, inv_pc,
                    inv_no, inv_input, stats, call_log,
                    dispatch_log, run, save_log,
                    inv_limit >>

Stamp(last, d) == [x \in DOMAIN last \cup {d} |-> IF x = d THEN now ELSE last[x]]

\* The sleep is over (timed: the clock has reached its deadline) and the
\* domain's entry is stamped.
RateLimitEnd(e, k, timed) ==
    /\ At(e, k, "stamp")
    /\ timed => now >= part[e][k].wake
    /\ domain_last_request' = [domain_last_request EXCEPT
          ![e] = Stamp(@, part[e][k].domain)]
    /\ dispatch_log' = [dispatch_log EXCEPT ![e] = Stamp(@, part[e][k].domain)]
    /\ SetPart(e, k, [part[e][k] EXCEPT !.pc = "mark", !.wake = 0])
    /\ UNCHANGED << store, store_faults, now, inv_pc, inv_no, inv_input,
                    stats, call_log, run, save_log,
                    inv_limit >>

MarkProcessing(e, k) ==
    /\ At(e, k, "mark")
    /\ news_links' = update_link_status(CurrentLink(part[e][k]), "processing", "")
    /\ SetPart(e, k, [part[e][k] EXCEPT !.pc = "call", !.attempt = 1])
    /\ UNCHANGED << processed_content, query_tasks, store_faults, now,
                    domain_last_request, inv_pc, inv_no, inv_input, stats,
                    call_log,
                    dispatch_log, run, save_log,
                    inv_limit >>

MarkProcessingRaises(e, k) ==
    /\ At(e, k, "mark")
    /\ store_faults < MaxStoreFaults
    /\ store_faults' = store_faults + 1
    /\ SetPart(e, k, Raised(part[e][k]))
    /\ UNCHANGED << store, now, domain_last_request, inv_pc, inv_no,
                    inv_input, stats, call_log,
                    dispatch_log, run, save_log,
                    inv_limit >>

CallStart(e, k) ==
    /\ At(e, k, "call")
    /\ SetPart(e, k, [part[e][k] EXCEPT !.pc = "incall", !.ncalls = @ + 1])
    /\ call_log' = [call_log EXCEPT ![e] = Stamp(@, part[e][k].domain)]
    /\ UNCHANGED << store, store_faults, now, domain_last_request, inv_pc,
                    inv_no, inv_input, stats, dispatch_log, run, save_log,
                    inv_limit >>

\* A return that goes from a success straight to the status write.
CallReturnSkipSave(e, k, out) ==
    /\ At(e, k, "incall")
    /\ LET p == [part[e][k] EXCEPT
                   !.last_err = IF out.kind = "ok" THEN "" ELSE out.val,
                   !.oks = IF out.kind = "ok" THEN @ + 1 ELSE @,
                   !.all_raise = @ /\ out.kind = "raise",
                   !.all_ok = @ /\ out.kind = "ok"]
       IN  CASE out.kind = "ok" ->
                  SetPart(e, k, [p EXCEPT !.pc = "complete", !.payload = out.val])
             [] out.kind = "false" ->
                  IF p.attempt = MAX_RETRIES
                  THEN SetPart(e, k, Finish(p, FALSE))
                  ELSE SetPart(e, k, [p EXCEPT !.pc = "call", !.attempt = @ + 1])
             [] out.kind = "raise" ->
                  SetPart(e, k, Handle(p, out.val))
    /\ UNCHANGED << store, store_faults, now, domain_last_request, inv_pc,
                    inv_no, inv_input, stats, call_log,
                    dispatch_log, run, save_log,
                    inv_limit >>

\* ai_processor.process(url) returns a result with success true, returns
\* one with success false (or nothing), or raises.
CallReturn(e, k, out) ==
    /\ At(e, k, "incall")
    /\ LET p == [part[e][k] EXCEPT
                   !.last_err = IF out.kind = "ok" THEN "" ELSE out.val,
                   !.oks = IF out.kind = "ok" THEN @ + 1 ELSE @,
                   !.all_raise = @ /\ out.kind = "raise",
                   !.all_ok = @ /\ out.kind = "ok"]
       IN  CASE out.kind = "ok" ->
                  SetPart(e, k, [p EXCEPT !.pc = "save", !.payload = out.val])
             [] out.kind = "false" ->
                  IF p.attempt = MAX_RETRIES
                  THEN SetPart(e, k, Finish(p, FALSE))
                  ELSE SetPart(e, k, [p EXCEPT !.pc = "call", !.attempt = @ + 1])
             [] out.kind = "raise" ->
                  SetPart(e, k, Handle(p, out.val))
    /\ UNCHANGED << store, store_faults, now, domain_last_request, inv_pc,
                    inv_no, inv_input, stats, call_log,
                    dispatch_log, run, save_log,
                    inv_limit >>

SaveContent(e, k) ==
    /\ At(e, k, "save")
    /\ processed_content' =
          save_processed_content(CurrentLink(part[e][k]), part[e][k].payload)
    /\ save_log' =
          LET id == CurrentLink(part[e][k])
          IN  [x \in DOMAIN save_log \cup {id} |->
                 IF x = id
                 THEN (IF id \in DOMAIN save_log THEN save_log[id] ELSE <<>>)
                         \o <<part[e][k].payload>>
                 ELSE save_log[x]]
    /\ SetPart(e, k, [part[e][k] EXCEPT !.pc = "complete"])
    /\ UNCHANGED << news_links, query_tasks, store_faults, now,
                    domain_last_request, inv_pc, inv_no, inv_input, stats,
                    call_log, dispatch_log, run, inv_limit >>

SaveContentRaises(e, k) ==
    /\ At(e, k, "save")
    /\ store_faults < MaxStoreFaults
    /\ store_faults' = store_faults + 1
    /\ SetPart(e, k, Handle([part[e][k] EXCEPT !.last_err = StoreError], StoreError))
    /\ UNCHANGED << store, now, domain_last_request, inv_pc, inv_no,
                    inv_input, stats, call_log,
                    dispatch_log, run, save_log,
                    inv_limit >>

MarkCompleted(e, k) ==
    /\ At(e, k, "complete")
    /\ news_links' = update_link_status(CurrentLink(part[e][k]), "completed", "")
    /\ SetPart(e, k, Finish(part[e][k], TRUE))
    /\ UNCHANGED << processed_content, query_tasks, store_faults, now,
                    domain_last_request, inv_pc, inv_no, inv_input, stats,
                    call_log,
                    dispatch_log, run, save_log,
                    inv_limit >>

MarkCompletedRaises(e, k) ==
    /\ At(e, k, "complete")
    /\ store_faults < MaxStoreFaults
    /\ store_faults' = store_faults + 1
    /\ SetPart(e, k, Handle([part[e][k] EXCEPT !.last_err = StoreError], StoreError))
    /\ UNCHANGED << store, now, domain_last_request, inv_pc, inv_no,
                    inv_input, stats, call_log,
                    dispatch_log, run, save_log,
                    inv_limit >>

\* time.sleep(2 ** attempt) is over: the loop goes to its next attempt.
BackoffEnd(e, k, timed) ==
    /\ At(e, k, "backoff")
    /\ timed => now >= part[e][k].wake
    /\ SetPart(e, k, [part[e][k] EXCEPT !.pc = "call", !.attempt = @ + 1,
                                        !.wake = 0])
    /\ UNCHANGED << store, store_faults, now, domain_last_request, inv_pc,
                    inv_no, inv_input, stats, call_log,
                    dispatch_log, run, save_log,
                    inv_limit >>

MarkFailed(e, k) ==
    /\ At(e, k, "markfailed")
    /\ news_links' =
          update_link_status(CurrentLink(part[e][k]), "failed", part[e][k].exc)
    /\ SetPart(e, k, Finish(part[e][k], FALSE))
    /\ UNCHANGED << processed_content, query_tasks, store_faults, now,
                    domain_last_request, inv_pc, inv_no, inv_input, stats,
                    call_log,
                    dispatch_log, run, save_log,
                    inv_limit >>

MarkFailedRaises(e, k) ==
    /\ At(e, k, "markfailed")
    /\ store_faults < MaxStoreFaults
    /\ store_faults' = store_faults + 1
    /\ SetPart(e, k, Raised(part[e][k]))
    /\ UNCHANGED << store, now, domain_last_request, inv_pc, inv_no,
                    inv_input, stats, call_log,
                    dispatch_log, run, save_log,
                    inv_limit >>

\* as_completed has yielded every future: the stats of those that returned
\* are added up; one that raised is printed and adds nothing.
Collect(parts) ==
    LET done == {k \in DOMAIN parts : parts[k].state = "done"}
        doms == {parts[k].domain : k \in done}
        of(d) == CHOOSE k \in done : parts[k].domain = d
        col(f) == SumSeq([k \in DOMAIN parts |->
                            IF k \in done THEN f[k] ELSE 0])
    IN  [total |-> col([k \in DOMAIN parts |-> Len(parts[k].links)]),
         success |-> col([k \in DOMAIN parts |-> parts[k].success]),
         failed |-> col([k \in DOMAIN parts |-> parts[k].failed]),
         skipped |-> 0,
         by_domain |-> [d \in doms |-> PartStats(parts[of(d)])]]

Return(e) ==
    /\ inv_pc[e] = "running"
    /\ \A k \in DOMAIN part[e] : part[e][k].state \in {"done", "raised"}
    /\ inv_pc' = [inv_pc EXCEPT ![e] = "returned"]
    /\ stats' = [stats EXCEPT ![e] = Collect(part[e])]
    /\ inv_limit' = [inv_limit EXCEPT ![e] = 0]
    /\ UNCHANGED << store, store_faults, now, domain_last_request, inv_no,
                    inv_input, part, call_log,
                    dispatch_log, run, save_log >>

Tick ==
    /\ now < MaxTime
    /\ now' = now + 1
    /\ UNCHANGED << store, store_faults, domain_last_request, inv_pc, inv_no,
                    inv_input, part, stats, call_log,
                    dispatch_log, run, save_log,
                    inv_limit >>

\* ------------------------------------------------------ the engine's steps

Payloads == {"p1", "p2"}
Errors == {"e1", "e2"}

Outcomes ==
    {[kind |-> "ok", val |-> v] : v \in Payloads}
        \cup {[kind |-> k, val |-> v] : k \in {"false", "raise"}, v \in Errors}

\* One payload, one error for a result with success false and another for
\* an exception.
OutcomesPlain ==
    {[kind |-> "ok", val |-> "p1"], [kind |-> "false", val |-> "e1"],
     [kind |-> "raise", val |-> "e2"]}

\* A success or an exception.
OutcomesPool ==
    {[kind |-> "ok", val |-> "p1"], [kind |-> "raise", val |-> "e1"]}

\* Two payloads, and an exception.
OutcomesRepeat ==
    {[kind |-> "ok", val |-> "p1"], [kind |-> "ok", val |-> "p2"],
     [kind |-> "raise", val |-> "e1"]}

WorkerStep(e, k, outs, timed) ==
    \/ StartPartition(e, k)
    \/ RateLimitBegin(e, k)
    \/ RateLimitEnd(e, k, timed)
    \/ MarkProcessing(e, k)
    \/ CallStart(e, k)
    \/ \E out \in outs : CallReturn(e, k, out)
    \/ SaveContent(e, k)
    \/ MarkCompleted(e, k)
    \/ BackoffEnd(e, k, timed)
    \/ MarkFailed(e, k)

StoreFault(e, k) ==
    \/ MarkProcessingRaises(e, k)
    \/ SaveContentRaises(e, k)
    \/ MarkCompletedRaises(e, k)
    \/ MarkFailedRaises(e, k)

Started == SumSeq([e \in 1..Cardinality(Engines) |-> inv_no[e]])

\* ------------------------------------------------------------ Orchestrator

TaskNames == {"demo", "old", "nosuch"}

\* What search_client.search() may return: a list of URLs, or None.
RECURSIVE UrlLists(_)
UrlLists(n) ==
    IF n = 0 THEN {<<>>}
    ELSE UrlLists(n - 1)
            \cup {Append(l, u) : l \in {m \in UrlLists(n - 1) : Len(m) = n - 1},
                                 u \in RawUrls}

SearchResults ==
    {[ok |-> FALSE, urls |-> <<>>]}
        \cup {[ok |-> TRUE, urls |-> l] : l \in UrlLists(MaxUrls)}

\* The same over the raw forms.
RECURSIVE VariantLists(_)
VariantLists(n) ==
    IF n = 0 THEN {<<>>}
    ELSE VariantLists(n - 1)
            \cup {Append(l, u) : l \in {m \in VariantLists(n - 1) : Len(m) = n - 1},
                                 u \in VariantUrls}

VariantResults ==
    {[ok |-> FALSE, urls |-> <<>>]}
        \cup {[ok |-> TRUE, urls |-> l] : l \in VariantLists(MaxVariants)}

\* A search that returns one of the URLs built from the component sets.
NormResults == {[ok |-> TRUE, urls |-> <<u>>] : u \in NormUrls}

NoUrl == Url("", <<>>, <<>>)

NoResult ==
    [success |-> FALSE, error |-> "", total_found |-> 0, new_links |-> 0,
     duplicates |-> 0, invalid |-> 0, urls |-> <<>>,
     has_processing |-> FALSE, processing |-> NoStats]

\* One run of run_task: pc is its position; task_name, urls, i,
\* normalized_url, new_links, duplicates, invalid and processed_urls are the
\* locals of run_task, execute_search and _process_urls; result is what
\* run_task returned.  insert_log is history: what each insert_news_link
\* call of the run returned.
NewRun ==
    [pc |-> "idle", task_name |-> "", urls |-> <<>>, i |-> 0,
     normalized_url |-> NoUrl, new_links |-> 0, duplicates |-> 0,
     invalid |-> 0, processed_urls |-> <<>>, result |-> NoResult,
     insert_log |-> <<>>]

EngineUnchanged ==
    UNCHANGED << store_faults, now, domain_last_request, inv_pc, inv_no,
                 inv_input, part, stats, call_log, dispatch_log, save_log,
                    inv_limit >>

\* A run_task that does not look at the active flag.
run_taskIgnoresActive(r, task_name) ==
    /\ run[r].pc = "idle"
    /\ run' = [run EXCEPT ![r] =
          IF task_name \notin DOMAIN query_tasks
          THEN [@ EXCEPT !.pc = "returned", !.task_name = task_name,
                         !.result = [NoResult EXCEPT !.error = "not found"]]
          ELSE [@ EXCEPT !.pc = "search", !.task_name = task_name]]
    /\ UNCHANGED store
    /\ EngineUnchanged

\* run_task up to its call of execute_search: the task is not found, is
\* not active, or is searched for.
run_task(r, task_name) ==
    /\ run[r].pc = "idle"
    /\ run' = [run EXCEPT ![r] =
          IF task_name \notin DOMAIN query_tasks
          THEN [@ EXCEPT !.pc = "returned", !.task_name = task_name,
                         !.result = [NoResult EXCEPT !.error = "not found"]]
          ELSE IF ~query_tasks[task_name].is_active
          THEN [@ EXCEPT !.pc = "returned", !.task_name = task_name,
                         !.result = [NoResult EXCEPT !.error = "not active"]]
          ELSE [@ EXCEPT !.pc = "search", !.task_name = task_name]]
    /\ UNCHANGED store
    /\ EngineUnchanged

\* An execute_search that counts a failed search as a run.
searchCountsFailure(r, found) ==
    /\ run[r].pc = "search"
    /\ run' = [run EXCEPT ![r] =
          IF ~found.ok
          THEN [@ EXCEPT !.pc = "returned",
                         !.result = [NoResult EXCEPT !.error = "Search failed"]]
          ELSE [@ EXCEPT !.pc = IF found.urls = <<>> THEN "stats" ELSE "url",
                         !.urls = found.urls, !.i = 1]]
    /\ query_tasks' = IF found.ok THEN query_tasks
                      ELSE update_task_run_stats(run[r].task_name, 0)
    /\ UNCHANGED << news_links, processed_content >>
    /\ EngineUnchanged

\* search_client.search() has returned found: None ends execute_search, a
\* list starts the loop of _process_urls.
search(r, found) ==
    /\ run[r].pc = "search"
    /\ run' = [run EXCEPT ![r] =
          IF ~found.ok
          THEN [@ EXCEPT !.pc = "returned",
                         !.result = [NoResult EXCEPT !.error = "Search failed"]]
          ELSE [@ EXCEPT !.pc = IF found.urls = <<>> THEN "stats" ELSE "url",
                         !.urls = found.urls, !.i = 1]]
    /\ UNCHANGED store
    /\ EngineUnchanged

\* The loop of _process_urls goes to its next URL, or ends.
NextUrl(q) ==
    IF q.i = Len(q.urls)
    THEN [q EXCEPT !.pc = "stats", !.normalized_url = NoUrl]
    ELSE [q EXCEPT !.pc = "url", !.i = @ + 1, !.normalized_url = NoUrl]

\* One turn of the loop of _process_urls up to insert_news_link: the URL
\* is invalid, or url_exists() finds its hash, or it is to be inserted.
_process_urlsCheck(r) ==
    /\ run[r].pc = "url"
    /\ LET q == run[r]
           url == q.urls[q.i]
           normalized_url == normalize_url(url)
       IN  run' = [run EXCEPT ![r] =
              IF ~is_valid_url(url)
              THEN NextUrl([q EXCEPT !.invalid = @ + 1])
              ELSE IF url_exists(hash_url(normalized_url))
              THEN NextUrl([q EXCEPT !.duplicates = @ + 1])
              ELSE [q EXCEPT !.pc = "insert",
                             !.normalized_url = normalized_url]]
    /\ UNCHANGED store
    /\ EngineUnchanged

\* The rest of the turn: insert_news_link, and the new link counted when
\* an id came back.
_process_urlsInsert(r) ==
    /\ run[r].pc = "insert"
    /\ LET q == run[r]
           url_hash_value == hash_url(q.normalized_url)
           ins == insert_news_link(q.normalized_url, url_hash_value, q.task_name)
           logged == [q EXCEPT !.insert_log =
                        Append(@, [url_hash |-> url_hash_value, id |-> ins.id])]
       IN  /\ news_links' = ins.table
           /\ run' = [run EXCEPT ![r] =
                 IF ins.id # 0
                 THEN NextUrl([logged EXCEPT
                        !.new_links = @ + 1,
                        !.processed_urls =
                            Append(@, [id |-> ins.id, url |-> q.normalized_url,
                                       original_url |-> q.urls[q.i]])])
                 ELSE NextUrl(logged)]
    /\ UNCHANGED << processed_content, query_tasks >>
    /\ EngineUnchanged

SearchResult(q) ==
    [success |-> TRUE, error |-> "", total_found |-> Len(q.urls),
     new_links |-> q.new_links, duplicates |-> q.duplicates,
     invalid |-> q.invalid, urls |-> q.processed_urls,
     has_processing |-> FALSE, processing |-> NoStats]

\* execute_search after _process_urls: the task's statistics are updated,
\* and the run returns unless its new links are to be processed.
execute_searchStats(r) ==
    /\ run[r].pc = "stats"
    /\ query_tasks' = update_task_run_stats(run[r].task_name, run[r].new_links)
    /\ run' = [run EXCEPT ![r] =
          IF AUTO_PROCESS_AFTER_SEARCH /\ Worker(r) # 0 /\ run[r].new_links > 0
          THEN [@ EXCEPT !.pc = "process"]
          ELSE [@ EXCEPT !.pc = "returned", !.result = SearchResult(run[r])]]
    /\ UNCHANGED << news_links, processed_content >>
    /\ EngineUnchanged

\* A run that has its worker process the pending backlog.
execute_searchProcessBacklog(r) ==
    /\ run[r].pc = "process"
    /\ inv_pc[Worker(r)] = "idle"
    /\ process_pending_links(Worker(r), 2 * MaxUrls + 1)

\* The run calls process_specific_links of its worker with the ids of its
\* new links.
execute_searchProcess(r) ==
    /\ run[r].pc = "process"
    /\ inv_pc[Worker(r)] = "idle"
    /\ process_specific_links(Worker(r),
          {run[r].processed_urls[n].id : n \in DOMAIN run[r].processed_urls})

\* process_specific_links has returned: so does the run.
execute_searchReturn(r) ==
    /\ run[r].pc = "process"
    /\ inv_pc[Worker(r)] = "returned"
    /\ run' = [run EXCEPT ![r] =
          [@ EXCEPT !.pc = "returned",
                    !.result = [SearchResult(run[r]) EXCEPT
                                  !.has_processing = TRUE,
                                  !.processing = stats[Worker(r)]]]]
    /\ UNCHANGED store
    /\ EngineUnchanged

\* --------------------------------------------------------- specifications

InitStore(n) ==
    /\ news_links = [i \in 1..n |-> NewLink(StoredUrls[i], "demo")]
    /\ processed_content = {}
    /\ query_tasks = [t \in {"demo"} |->
                        [is_active |-> TRUE, total_runs |-> 0,
                         total_links_found |-> 0]]
    /\ store_faults = 0

InitEngines ==
    /\ now = 0
    /\ domain_last_request = [e \in Engines |-> <<>>]
    /\ inv_pc = [e \in Engines |-> "idle"]
    /\ inv_no = [e \in Engines |-> 0]
    /\ inv_input = [e \in Engines |-> <<>>]
    /\ part = [e \in Engines |-> <<>>]
    /\ stats = [e \in Engines |-> NoStats]
    /\ call_log = [e \in Engines |-> <<>>]
    /\ dispatch_log = [e \in Engines |-> <<>>]
    /\ run = [r \in Runs |-> NewRun]
    /\ save_log = <<>>
    /\ inv_limit = [e \in Engines |-> 0]

\* One engine, one invocation, a store of up to MaxLinks pending links; the
\* clock stands still and every sleep ends when it will.
Init ==
    /\ \E n \in 0..MaxLinks : InitStore(n)
    /\ InitEngines

Next ==
    \/ \E limit \in 1..MaxLinks :
          Started = 0 /\ process_pending_links(1, limit)
    \/ \E ids \in SUBSET (1..MaxLinks) :
          /\ Started = 0
          /\ Cardinality(ids) \in 1..MaxSpecific
          /\ process_specific_links(1, ids)
    \/ \E k \in DOMAIN part[1] : WorkerStep(1, k, OutcomesPlain, FALSE)
    \/ \E k \in DOMAIN part[1] : StoreFault(1, k)
    \/ Return(1)

Spec == Init /\ [][Next]_vars

\* The pool: one engine, one processPending over a store of MaxPoolLinks
\* links of as many domains.  The threads keep running, the Content
\* Processor answers (with a success or an exception), the store answers
\* and every sleep ends: an engine step that can be taken is taken in the
\* end.
InitPool ==
    /\ news_links = [i \in 1..MaxPoolLinks |-> NewLink(PoolUrls[i], "demo")]
    /\ processed_content = {}
    /\ query_tasks = [t \in {"demo"} |->
                        [is_active |-> TRUE, total_runs |-> 0,
                         total_links_found |-> 0]]
    /\ store_faults = 0
    /\ InitEngines

PoolSteps ==
    \/ \E k \in DOMAIN part[1] : WorkerStep(1, k, OutcomesPool, FALSE)
    \/ Return(1)

NextPool ==
    \/ Started = 0 /\ process_pending_links(1, MaxPoolLinks)
    \/ PoolSteps

SpecPool == InitPool /\ [][NextPool]_vars /\ WF_vars(PoolSteps)

\* The clock: one engine, whose invocations follow one another, over a
\* store of up to MaxLinksTimed pending links; time passes, a sleep ends no
\* sooner than its deadline.
InitTimed ==
    /\ \E n \in 1..MaxLinksTimed : InitStore(n)
    /\ InitEngines

NextTimed ==
    \/ \E limit \in 1..MaxLinksTimed :
          Started < MaxInvocations /\ process_pending_links(1, limit)
    \/ \E k \in DOMAIN part[1] : WorkerStep(1, k, OutcomesPool, TRUE)
    \/ Return(1)
    \/ Tick

SpecTimed == InitTimed /\ [][NextTimed]_vars

\* Two engines, each in a process of its own, over one store of up to
\* MaxLinksMulti links: their invocations overlap.
InitMulti ==
    /\ \E n \in 1..MaxLinksMulti : InitStore(n)
    /\ InitEngines

NextMulti ==
    \/ \E e \in Engines : \E limit \in 1..MaxLinksMulti :
          Started < MaxInvocations /\ process_pending_links(e, limit)
    \/ \E e \in Engines : \E ids \in SUBSET (1..MaxLinksMulti) :
          /\ Started < MaxInvocations
          /\ ids # {}
          /\ process_specific_links(e, ids)
    \/ \E e \in Engines : \E k \in DOMAIN part[e] :
          WorkerStep(e, k, OutcomesPool, FALSE)
    \/ \E e \in Engines : Return(e)

SpecMulti == InitMulti /\ [][NextMulti]_vars

\* Two runs of run_task at once over one store, which may hold
\* StoredUrls[1] from a task that has since been switched off.
InitOrch ==
    /\ \E n \in 0..1 : news_links = [i \in 1..n |-> NewLink(StoredUrls[i], "old")]
    /\ processed_content = {}
    /\ query_tasks =
          [t \in {"demo", "old"} |->
              [is_active |-> t = "demo", total_runs |-> 0,
               total_links_found |-> 0]]
    /\ store_faults = 0
    /\ InitEngines

NextOrch ==
    \/ \E r \in Runs : \E task_name \in TaskNames : run_task(r, task_name)
    \/ \E r \in Runs : \E found \in SearchResults : search(r, found)
    \/ \E r \in Runs : _process_urlsCheck(r)
    \/ \E r \in Runs : _process_urlsInsert(r)
    \/ \E r \in Runs : execute_searchStats(r)
    \/ \E r \in Runs : execute_searchProcess(r)
    \/ \E r \in Runs : execute_searchReturn(r)
    \/ \E k \in DOMAIN part[1] : WorkerStep(1, k, OutcomesPool, FALSE)
    \/ Return(1)

SpecOrch == InitOrch /\ [][NextOrch]_vars

\* One run of run_task, of a module with no worker, over the raw forms and
\* a store that may hold StoredUrls[1] from an earlier run.
NextSeq ==
    \/ run_task(2, "demo")
    \/ \E found \in VariantResults : search(2, found)
    \/ _process_urlsCheck(2)
    \/ _process_urlsInsert(2)
    \/ execute_searchStats(2)

SpecSeq == InitOrch /\ [][NextSeq]_vars

\* One engine whose processSpecific invocations follow one another over a
\* store of up to MaxLinksMulti links, the store failing now and then.
NextRepeat ==
    \/ \E ids \in SUBSET (1..MaxLinksMulti) :
          /\ Started < MaxInvocations
          /\ ids # {}
          /\ process_specific_links(1, ids)
    \/ \E k \in DOMAIN part[1] : WorkerStep(1, k, OutcomesRepeat, FALSE)
    \/ \E k \in DOMAIN part[1] : StoreFault(1, k)
    \/ Return(1)

SpecRepeat == InitMulti /\ [][NextRepeat]_vars

\* normalize_url: one run of run_task, of a module with no worker, whose
\* search returns one URL built from the component sets.
NextNorm ==
    \/ run_task(2, "demo")
    \/ \E found \in NormResults : search(2, found)
    \/ _process_urlsCheck(2)
    \/ _process_urlsInsert(2)
    \/ execute_searchStats(2)

SpecNorm == InitOrch /\ [][NextNorm]_vars

\* The clock and every outcome of a call: one engine, one processPending
\* over a store of up to MaxLinksMulti pending links; time passes, a sleep
\* ends no sooner than its deadline.
NextBackoff ==
    \/ Started = 0 /\ process_pending_links(1, MaxLinksMulti)
    \/ \E k \in DOMAIN part[1] : WorkerStep(1, k, OutcomesPlain, TRUE)
    \/ Return(1)
    \/ Tick

SpecBackoff == InitMulti /\ [][NextBackoff]_vars

\* Hosts with a www. label inside: one engine, one processPending over a
\* store of up to MaxLinks pending links of such hosts.
InitHosts ==
    /\ \E n \in 1..MaxLinks : news_links = [i \in 1..n |-> NewLink(HostUrls[i], "demo")]
    /\ processed_content = {}
    /\ query_tasks = [t \in {"demo"} |->
                        [is_active |-> TRUE, total_runs |-> 0,
                         total_links_found |-> 0]]
    /\ store_faults = 0
    /\ InitEngines

NextHosts ==
    \/ \E limit \in 1..MaxLinks : Started = 0 /\ process_pending_links(1, limit)
    \/ \E k \in DOMAIN part[1] : WorkerStep(1, k, OutcomesPool, FALSE)
    \/ Return(1)

SpecHosts == InitHosts /\ [][NextHosts]_vars

\* Two runs of run_task at once, of one active task or of two, over a store
\* that starts with no link.
ActiveTasks == {"demo", "world"}

InitTasks ==
    /\ news_links = <<>>
    /\ processed_content = {}
    /\ query_tasks =
          [t \in ActiveTasks |->
              [is_active |-> TRUE, total_runs |-> 0, total_links_found |-> 0]]
    /\ store_faults = 0
    /\ InitEngines

NextTasks ==
    \/ \E r \in Runs : \E task_name \in ActiveTasks : run_task(r, task_name)
    \/ \E r \in Runs : \E found \in SearchResults : search(r, found)
    \/ \E r \in Runs : _process_urlsCheck(r)
    \/ \E r \in Runs : _process_urlsInsert(r)
    \/ \E r \in Runs : execute_searchStats(r)
    \/ \E r \in Runs : execute_searchProcess(r)
    \/ \E r \in Runs : execute_searchReturn(r)
    \/ \E k \in DOMAIN part[1] : WorkerStep(1, k, OutcomesPool, FALSE)
    \/ Return(1)

SpecTasks == InitTasks /\ [][NextTasks]_vars

\* ------------------------------------------------------------ the claims

\* C1: every change of a link's stored status is pending -> processing,
\* processing -> completed or processing -> failed.
C1_StatusTransitions ==
    [][\A id \in LinkIds :
          news_links'[id].status # news_links[id].status =>
             <<news_links[id].status, news_links'[id].status>> \in
                {<<"pending", "processing">>, <<"processing", "completed">>,
                 <<"processing", "failed">>}]_vars

Terminal == {"completed", "failed"}

\* The links partition p is through with, each with how it ended.
EndedLinks(p) == {<<p.links[j], p.ended[j]>> : j \in DOMAIN p.ended}

Parts(e) == {part[e][k] : k \in DOMAIN part[e]}

\* C2: a link all of whose attempts failed, by an exception or by a result
\* with success false, is stored as failed with the error of its last
\* attempt once the engine is through with it (the store answering).
C2_FailedWithLastError ==
    store_faults = 0 =>
        \A p \in Parts(1) : \A le \in EndedLinks(p) :
            le[2].how = "failed" =>
                /\ news_links[le[1]].status = "failed"
                /\ news_links[le[1]].error_message = le[2].err

\* C3: when the invocation has returned (the store answering), every link
\* of its input set is completed or failed.
C3_AllTerminalOnReturn ==
    (inv_pc[1] = "returned" /\ store_faults = 0) =>
        \A id \in Range(inv_input[1]) : news_links[id].status \in Terminal

\* C4: within one invocation the Content Processor is called at most
\* MAX_RETRIES times for a link, and exactly MAX_RETRIES times for a link
\* none of whose attempts succeeded (an exception, a result with success
\* false, a store error while the result was saved).
C4_RetryBound ==
    \A p \in Parts(1) :
        /\ p.ncalls <= MAX_RETRIES
        /\ \A le \in EndedLinks(p) :
              /\ le[2].calls <= MAX_RETRIES
              /\ le[2].how \in {"failed", "raised"} => le[2].calls = MAX_RETRIES

\* A link has failed on every attempt, the last of them by a store error
\* while its result was saved.
C4_Witness ==
    \E p \in Parts(1) : \E le \in EndedLinks(p) :
        /\ le[2].how = "failed"
        /\ le[2].calls = MAX_RETRIES
        /\ le[2].err = StoreError

\* The insert_news_link calls that have returned: <<run, number>>.
InsertCalls == {c \in Runs \X (1..(MaxUrls + 1)) : c[2] \in DOMAIN run[c[1]].insert_log}

Returned(c) == run[c[1]].insert_log[c[2]]

\* The calls that were given an id for fingerprint h.
GotId(h) == {c \in InsertCalls : Returned(c).url_hash = h /\ Returned(c).id # 0}

\* C5: whatever the interleaving of the runs, no two stored links have one
\* fingerprint; the link of an id returned has the fingerprint inserted; a
\* fingerprint some call tried to insert is stored, and exactly one call
\* got an id for it (none when the link was there before the runs).
C5_DedupAtomic ==
    /\ \A i, j \in LinkIds :
          i # j => news_links[i].url_hash # news_links[j].url_hash
    /\ \A c \in InsertCalls :
          LET h == Returned(c).url_hash
          IN  /\ Returned(c).id # 0 =>
                    /\ Returned(c).id \in LinkIds
                    /\ news_links[Returned(c).id].url_hash = h
              /\ \E id \in LinkIds :
                    /\ news_links[id].url_hash = h
                    /\ Cardinality(GotId(h)) =
                          IF news_links[id].source_task = "old" THEN 0 ELSE 1

\* Both runs have tried to insert one canonical URL, found from two raw
\* forms: run 1 got no id, run 2 got the id.
C5_Witness ==
    \E c, d \in InsertCalls :
        /\ c[1] = 1
        /\ d[1] = 2
        /\ Returned(c).url_hash = Returned(d).url_hash
        /\ Returned(c).id = 0
        /\ Returned(d).id # 0
        /\ run[1].urls[run[1].i] # run[2].urls[run[2].i]

\* C7: a Content Processor call for a domain, first attempt or retry,
\* starts at least SAME_DOMAIN_DELAY after the start of the domain's call
\* before it.
C7_SpacingBeforeEveryCall ==
    [][\A k \in DOMAIN part[1] :
          (/\ k \in DOMAIN part'[1]
           /\ part[1][k].pc = "call"
           /\ part'[1][k].pc = "incall"
           /\ part[1][k].domain \in DOMAIN call_log[1])
             => now - call_log[1][part[1][k].domain] >= SAME_DOMAIN_DELAY]_vars

\* C8: the rate-limit wait of a link ends at least SAME_DOMAIN_DELAY after
\* the wait of the link of its domain that the engine dispatched before it,
\* in this invocation or an earlier one.
C8_DispatchSpacing ==
    [][\A k \in DOMAIN part[1] :
          (/\ k \in DOMAIN part'[1]
           /\ part[1][k].pc = "stamp"
           /\ part'[1][k].pc = "mark"
           /\ part[1][k].domain \in DOMAIN dispatch_log[1])
             => now - dispatch_log[1][part[1][k].domain] >= SAME_DOMAIN_DELAY]_vars

\* The second link of a domain has just been dispatched, and so has, at the
\* same moment, the first link of another domain.
C8_Witness ==
    \E k1, k2 \in DOMAIN part[1] :
        /\ part[1][k1].pc = "mark"
        /\ part[1][k1].i = 2
        /\ part[1][k2].pc = "mark"
        /\ part[1][k2].i = 1
        /\ part[1][k1].domain # part[1][k2].domain
        /\ dispatch_log[1][part[1][k1].domain] = now
        /\ dispatch_log[1][part[1][k2].domain] = now

\* C11: when a State Store call has raised while the engine handled a link,
\* the invocation still attempts every other link of its input, those later
\* in the link's own domain included, and the stats it returns show the
\* failure.
C11_StoreFailureIsolated ==
    inv_pc[1] = "returned" =>
        \A p \in Parts(1) :
            /\ Len(p.ended) = Len(p.links)
            /\ p.state = "raised" => stats[1].failed >= 1

\* C12: when a partition's task has raised, the stats the invocation returns
\* hold an entry for its domain that counts its links, and the aggregate
\* total counts every link of the input.
C12_RaisedPartitionInStats ==
    inv_pc[1] = "returned" =>
        /\ stats[1].total = Len(inv_input[1])
        /\ \A p \in Parts(1) :
              p.state = "raised" =>
                 /\ p.domain \in DOMAIN stats[1].by_domain
                 /\ stats[1].by_domain[p.domain].total = Len(p.links)
                 /\ stats[1].by_domain[p.domain].failed >= 1

\* C13: while a Content Processor call for a link is under way, from its
\* start on and on every attempt, the link's stored status is processing.
C13_ProcessingBeforeCall ==
    \A e \in Engines : \A k \in DOMAIN part[e] :
        (part[e][k].state = "running" /\ part[e][k].pc = "incall") =>
            news_links[CurrentLink(part[e][k])].status = "processing"

RECURSIVE NoTrailingSlash(_)
NoTrailingSlash(path) ==
    IF path # <<>> /\ path[Len(path)] = ""
    THEN NoTrailingSlash(SubSeq(path, 1, Len(path) - 1))
    ELSE path

Page(url) ==
    [scheme |-> Lower(url.scheme),
     host |-> LET h == LowerAll(url.netloc)
              IN  IF Len(h) >= 2 /\ h[1] = "www" THEN Tail(h) ELSE h,
     path |-> NoTrailingSlash(url.path),
     query |-> SelectSeq(url.query, LAMBDA kv : kv[1] \notin tracking_params)]

WellFormed(url) == url.scheme # "" /\ url.netloc # <<>>

\* C15: when a run has registered the URLs of its discovery result in
\* sequence, the store holds one link per page: the run reports as new the
\* pages that were not stored before it, as duplicate every other
\* well-formed URL, and as invalid the malformed ones, which store nothing.
C15_VariantsOneLink ==
    (run[2].pc = "returned" /\ run[2].result.success) =>
        LET urls == run[2].urls
            valid == {i \in DOMAIN urls : WellFormed(urls[i])}
            before == {Page(news_links[id].url) :
                          id \in {x \in LinkIds : news_links[x].source_task = "old"}}
            pages == {Page(urls[i]) : i \in valid} \ before
        IN  /\ run[2].result.new_links = Cardinality(pages)
            /\ run[2].result.duplicates = Cardinality(valid) - Cardinality(pages)
            /\ run[2].result.invalid = Len(urls) - Cardinality(valid)
            /\ Cardinality({Page(news_links[id].url) : id \in LinkIds})
                  = Len(news_links)

Succeeded(r) == run[r].pc = "returned" /\ run[r].result.success

\* C16: in the result of a successful run the counts of new, duplicate and
\* invalid URLs add up to the number of URLs found, and the list of new
\* links has as many entries as the count of new links.
C16_Classification ==
    \A r \in Runs :
        Succeeded(r) =>
            /\ run[r].result.new_links + run[r].result.duplicates
                  + run[r].result.invalid = run[r].result.total_found
            /\ Len(run[r].result.urls) = run[r].result.new_links

\* C17: the step at which a run learns that its search failed returns
\* success false and changes neither store nor engine, and the run has
\* inserted nothing before it; a run whose search found an empty list
\* returns success with no URL found and no link new.
C17_SearchFailure ==
    [][\A r \in Runs :
          /\ (run[r].pc = "search" /\ run'[r].pc = "returned") =>
                /\ ~run'[r].result.success
                /\ run'[r].result.error = "Search failed"
                /\ run'[r].insert_log = <<>>
                /\ store' = store
                /\ inv_pc' = inv_pc
                /\ part' = part
          /\ (run[r].pc = "stats" /\ run[r].urls = <<>> /\ run'[r].pc = "returned") =>
                /\ run'[r].result.success
                /\ run'[r].result.total_found = 0
                /\ run'[r].result.new_links = 0
                /\ news_links' = news_links]_vars

\* One run has returned from a failed search and the other from an empty
\* one: the task has run once.
C17_Witness ==
    /\ run[1].pc = "returned"
    /\ run[1].result.error = "Search failed"
    /\ Succeeded(2)
    /\ run[2].result.total_found = 0
    /\ query_tasks["demo"].total_runs = 1

\* C18: a run of a task that is not there, or is not active, returns at
\* its first step with success false, without searching and with the store
\* as it was.
C18_AbsentOrInactive ==
    [][\A r \in Runs :
          (/\ run[r].pc = "idle"
           /\ run'[r].pc # "idle"
           /\ \/ run'[r].task_name \notin DOMAIN query_tasks
              \/ ~query_tasks[run'[r].task_name].is_active)
             => /\ run'[r].pc = "returned"
                /\ ~run'[r].result.success
                /\ run'[r].urls = <<>>
                /\ store' = store
                /\ inv_pc' = inv_pc]_vars

\* One run has returned for a task that is not there and the other for a
\* task that is not active.
C18_Witness ==
    /\ run[1].pc = "returned"
    /\ run[1].result.error = "not found"
    /\ run[2].pc = "returned"
    /\ run[2].result.error = "not active"
    /\ \A t \in DOMAIN query_tasks : query_tasks[t].total_runs = 0

\* The runs whose search has succeeded and whose statistics are written.
Counted(r) ==
    /\ run[r].task_name = "demo"
    /\ run[r].pc = "process" \/ Succeeded(r)

\* The runs whose search has succeeded.
Searched(r) == run[r].pc \in {"url", "insert", "stats", "process"} \/ Succeeded(r)

\* C19: the task's run count is the number of runs that have got past
\* their search and written their statistics, its links-found total the sum
\* of their new-link counts, whatever their processing does; every run that
\* has returned with success is among them, and the other task's counters
\* stand.
C19_RunStatistics ==
    /\ query_tasks["demo"].total_runs = Cardinality({r \in Runs : Counted(r)})
    /\ query_tasks["demo"].total_links_found =
          SumSeq([r \in 1..Cardinality(Runs) |->
                    IF Counted(r) THEN run[r].new_links ELSE 0])
    /\ \A r \in Runs : Searched(r) => run[r].task_name = "demo"
    /\ query_tasks["old"].total_runs = 0
    /\ query_tasks["old"].total_links_found = 0

\* Both runs are counted: one registered a link whose processing failed,
\* the other registered none.
C19_Witness ==
    /\ Succeeded(1)
    /\ run[1].result.has_processing
    /\ run[1].result.processing.failed >= 1
    /\ Succeeded(2)
    /\ run[2].result.new_links = 0
    /\ query_tasks["demo"].total_runs = 2

NewIds(r) == {run[r].processed_urls[n].id : n \in DOMAIN run[r].processed_urls}

\* C20: the engine of run 1 is invoked only once the run has registered a
\* link, and its input is the ids of the links the run registered; every
\* other link, stored before the run or registered by the other run, stays
\* pending and without content; a run that registered nothing returns
\* without invoking the engine.
C20_AutoProcessNewIds ==
    /\ inv_pc[1] # "idle" =>
          /\ run[1].new_links > 0
          /\ Range(inv_input[1]) = NewIds(1)
    /\ \A id \in LinkIds \ NewIds(1) :
          /\ news_links[id].status = "pending"
          /\ \A c \in processed_content : c.link_id # id
    /\ (Succeeded(1) /\ run[1].result.new_links = 0) =>
          /\ inv_pc[1] = "idle"
          /\ ~run[1].result.has_processing

\* Run 1 has returned with its link processed while the link run 2
\* registered is pending.
C20_Witness ==
    /\ Succeeded(1)
    /\ run[1].result.has_processing
    /\ \E id \in NewIds(1) : news_links[id].status = "completed"
    /\ \E id \in NewIds(2) : news_links[id].status = "pending"

\* C21: the store holds at most one content row per link, none for a link
\* never saved, and for a link saved, once or again, the row of its latest
\* save.
C21_ContentUpsert ==
    \A id \in LinkIds :
        LET rows == {c \in processed_content : c.link_id = id}
        IN  IF id \in DOMAIN save_log
            THEN rows = {[link_id |-> id,
                          payload |-> save_log[id][Len(save_log[id])]]}
            ELSE rows = {}

\* A link has been saved twice in one invocation (the status write after
\* the first save raised) and again in a later one, not always with the
\* same content.
C21_Witness ==
    \E id \in DOMAIN save_log :
        /\ Len(save_log[id]) >= 3
        /\ save_log[id][1] # save_log[id][Len(save_log[id])]
        /\ inv_no[1] = 2
        /\ store_faults >= 1

\* C22: a partition of a processPending invocation holds its links the most
\* recently discovered first; while it is at one of them, the links before
\* it are through with their attempts and the links after it are still
\* pending.
C22_OrderWithinDomain ==
    \A p \in Parts(1) :
        /\ \A j \in 1..(Len(p.links) - 1) : p.links[j] > p.links[j + 1]
        /\ p.state \in {"queued", "running"} =>
              /\ Len(p.ended) = p.i - 1
              /\ \A j \in (p.i + 1)..Len(p.links) :
                    news_links[p.links[j]].status = "pending"
        /\ p.state = "done" => Len(p.ended) = Len(p.links)

\* The more recent link of a domain has failed after MAX_RETRIES attempts
\* and the older one is about to be set to processing.
C22_Witness ==
    \E p \in Parts(1) :
        /\ p.state = "running"
        /\ p.i = 2
        /\ p.pc = "mark"
        /\ p.ended[1].calls = MAX_RETRIES
        /\ news_links[p.links[1]].status = "failed"
        /\ news_links[p.links[2]].status = "pending"

\* The transformation by its description: scheme and host in lower case,
\* one leading www. label gone, tracking parameters and fragment gone, one
\* slash gone from the end of a path that is not the root, and the other
\* query parameters as they were.
Reference(url) ==
    [scheme |-> Lower(url.scheme),
     netloc |-> LET h == LowerAll(url.netloc)
                IN  IF Len(h) >= 2 /\ h[1] = "www" THEN Tail(h) ELSE h,
     path |-> IF url.path # <<"">> /\ url.path # <<>> /\ url.path[Len(url.path)] = ""
              THEN SubSeq(url.path, 1, Len(url.path) - 1)
              ELSE url.path,
     query |-> SelectSeq(url.query, LAMBDA kv : kv[1] \notin tracking_params),
     fragment |-> ""]

\* C24: the canonical form computed for a discovered URL, and stored for
\* it, is the reference transformation of the URL.
C24_NormalizeReference ==
    /\ run[2].pc = "insert" =>
          run[2].normalized_url = Reference(run[2].urls[run[2].i])
    /\ \A n \in DOMAIN run[2].processed_urls :
          LET u == run[2].processed_urls[n]
          IN  /\ u.url = Reference(u.original_url)
              /\ news_links[u.id].url = Reference(u.original_url)

\* C25: an attempt that fails before the last one is followed by a sleep
\* of 2^attempt seconds, whether the call raised or returned success=false,
\* and the next attempt starts from that sleep only, when it is over; the
\* last attempt's failure is followed by no sleep.
C25_Backoff ==
    [][\A k \in DOMAIN part[1] \cap DOMAIN part'[1] :
          LET p == part[1][k]
              q == part'[1][k]
          IN  /\ (p.pc = "incall" /\ q.pc \notin {"incall", "save"}) =>
                    IF p.attempt < MAX_RETRIES
                    THEN /\ q.pc = "backoff"
                         /\ q.wake = now + 2 ^ p.attempt
                         /\ q.attempt = p.attempt
                    ELSE q.pc # "backoff"
              /\ (p.pc = "backoff" /\ q.pc # "backoff") =>
                    /\ now >= p.wake
                    /\ q.pc = "call"
                    /\ q.attempt = p.attempt + 1
              /\ (p.attempt >= 1 /\ q.attempt > p.attempt) =>
                    p.pc = "backoff"]_vars

\* The links among ids whose stored status is status.
Stored(ids, status) == {id \in ids : news_links[id].status = status}

\* C26: in the stats an invocation returns, each domain of the input has an
\* entry whose success and failed counters are the numbers of the domain's
\* input links now stored completed and failed; so are the aggregate
\* counters for the whole input (hence the sums of the entries'), and total
\* is success + failed + skipped and the number of input links.
C26_StatsMatchStore ==
    inv_pc[1] = "returned" =>
        LET input == Range(inv_input[1])
            dom(id) == extract_domain(news_links[id].url)
            of(d) == {id \in input : dom(id) = d}
        IN  /\ DOMAIN stats[1].by_domain = {dom(id) : id \in input}
            /\ \A d \in DOMAIN stats[1].by_domain :
                  /\ stats[1].by_domain[d].success
                        = Cardinality(Stored(of(d), "completed"))
                  /\ stats[1].by_domain[d].failed
                        = Cardinality(Stored(of(d), "failed"))
            /\ stats[1].success = Cardinality(Stored(input, "completed"))
            /\ stats[1].failed = Cardinality(Stored(input, "failed"))
            /\ stats[1].total
                  = stats[1].success + stats[1].failed + stats[1].skipped
            /\ stats[1].total = Len(inv_input[1])

\* C27: a link stored as completed has a processed_content row.
C27_CompletedHasContent ==
    \A id \in LinkIds :
        news_links[id].status = "completed" =>
            \E c \in processed_content : c.link_id = id

\* A link is completed, with its content, in a behaviour where a State
\* Store call of the engine has raised after the content was first saved.
C27_Witness ==
    \E id \in LinkIds :
        /\ news_links[id].status = "completed"
        /\ id \in DOMAIN save_log
        /\ Len(save_log[id]) >= 2
        /\ store_faults >= 1
        /\ \E c \in processed_content : c.link_id = id

\* The links the Content Processor has been called for in the invocation
\* of engine e.
Called(e) ==
    UNION {{p.links[j] : j \in {x \in DOMAIN p.ended : p.ended[x].calls > 0}}
              \cup (IF p.ncalls > 0 THEN {CurrentLink(p)} ELSE {}) : p \in Parts(e)}

\* C23: a processPending invocation fetches at most limit links, each once
\* and each pending at the moment of the fetch, and calls the Content
\* Processor for links it fetched only.
C23_PendingOnlyUpToLimit ==
    /\ [](\A e \in Engines :
            inv_limit[e] > 0 =>
               /\ Len(inv_input[e]) <= inv_limit[e]
               /\ Cardinality(Range(inv_input[e])) = Len(inv_input[e])
               /\ Called(e) \subseteq Range(inv_input[e])
               /\ Cardinality(Called(e)) <= inv_limit[e])
    /\ [][\A e \in Engines :
            (inv_no'[e] # inv_no[e] /\ inv_limit'[e] > 0) =>
               \A id \in Range(inv_input'[e]) :
                  /\ id \in LinkIds
                  /\ news_links[id].status = "pending"]_vars

\* A processPending invocation with limit 1 is calling the Content
\* Processor for the one link it fetched; the other link of the store had
\* failed before and was left alone.
C23_Witness ==
    \E e \in Engines :
        /\ inv_limit[e] = 1
        /\ \E p \in Parts(e) : p.state = "running" /\ p.pc = "incall"
        /\ \E id \in LinkIds \ Range(inv_input[e]) :
              /\ news_links[id].status = "failed"
              /\ \A o \in Engines \ {e} : inv_pc[o] = "returned"

\* C28: while two invocations are under way together, the Content Processor
\* has not been called for one link by both.
C28_ClaimedByOne ==
    \A e1, e2 \in Engines :
        (e1 # e2 /\ inv_pc[e1] = "running" /\ inv_pc[e2] = "running") =>
            Called(e1) \cap Called(e2) = {}

\* C29: when no run is under way, no State Store call has raised and every
\* stored link was registered by a run, each task's total_links_found is the
\* number of stored links whose source_task is the task.
C29_LinksFoundMatchesStore ==
    (/\ \A r \in Runs : run[r].pc \in {"idle", "returned"}
     /\ store_faults = 0
     /\ \A id \in LinkIds : \E r \in Runs : id \in NewIds(r)) =>
        \A t \in DOMAIN query_tasks :
            query_tasks[t].total_links_found
                = Cardinality({id \in LinkIds : news_links[id].source_task = t})

\* Two runs of different tasks have returned; both tried to insert one URL,
\* run 1 got no id for it and run 2 did.
C29_Witness ==
    /\ Succeeded(1)
    /\ Succeeded(2)
    /\ run[1].task_name # run[2].task_name
    /\ \E i \in DOMAIN run[1].insert_log : \E j \in DOMAIN run[2].insert_log :
          /\ run[1].insert_log[i].url_hash = run[2].insert_log[j].url_hash
          /\ run[1].insert_log[i].id = 0
          /\ run[2].insert_log[j].id # 0
    /\ query_tasks[run[2].task_name].total_links_found >= 1

\* A URL's host in lower case, less one leading www. label.
HostOf(url) ==
    LET h == LowerAll(url.netloc)
    IN  IF Len(h) >= 2 /\ h[1] = "www" THEN Tail(h) ELSE h

\* C30: two links of an invocation's input are in one partition if and only
\* if their hosts, in lower case and less one leading www. label, are equal.
C30_PartitionByHost ==
    \A p1, p2 \in Parts(1) :
        \A id1 \in Range(p1.links) : \A id2 \in Range(p2.links) :
            (p1 = p2) <=> (HostOf(news_links[id1].url) = HostOf(news_links[id2].url))

InFlight(e) ==
    {k \in DOMAIN part[e] : part[e][k].state = "running" /\ part[e][k].pc = "incall"}

\* C6: in one invocation each routing domain has one partition, which holds
\* every link of the domain: no two calls for links of one domain are in
\* flight together, and a domain's last-request entry is read and written
\* by the one worker whose partition is keyed by it.
C6_OneWorkerPerDomain ==
    /\ \A k1, k2 \in DOMAIN part[1] :
          k1 # k2 => part[1][k1].domain # part[1][k2].domain
    /\ \A k \in DOMAIN part[1] : \A id \in Range(part[1][k].links) :
          extract_domain(news_links[id].url) = part[1][k].domain
    /\ \A k1, k2 \in InFlight(1) :
          k1 # k2 =>
             extract_domain(news_links[CurrentLink(part[1][k1])].url)
                # extract_domain(news_links[CurrentLink(part[1][k2])].url)

\* Two calls are in flight, one of them for the second link of its domain.
C6_Witness ==
    /\ Cardinality(InFlight(1)) = 2
    /\ \E k \in InFlight(1) : part[1][k].i = 2

\* C10: when every call for domain A's links has raised and every call for
\* domain B's has succeeded, the invocation returns with A's links failed,
\* B's completed, and B's success count the number of B's links.
C10_DomainIsolation ==
    (inv_pc[1] = "returned" /\ store_faults = 0) =>
        \A a, b \in DOMAIN part[1] :
            LET A == part[1][a]
                B == part[1][b]
            IN  (a # b /\ A.all_raise /\ B.all_ok) =>
                  /\ \A id \in Range(A.links) : news_links[id].status = "failed"
                  /\ \A id \in Range(B.links) : news_links[id].status = "completed"
                  /\ B.domain \in DOMAIN stats[1].by_domain
                  /\ stats[1].by_domain[B.domain].success = Len(B.links)
                  /\ stats[1].by_domain[B.domain].failed = 0
                  /\ stats[1].success >= Len(B.links)

\* The invocation has returned from one domain whose calls all raised and
\* another, of two links, whose calls all succeeded.
C10_Witness ==
    /\ inv_pc[1] = "returned"
    /\ store_faults = 0
    /\ \E a, b \in DOMAIN part[1] :
          /\ a # b
          /\ part[1][a].all_raise
          /\ part[1][b].all_ok
          /\ Len(part[1][b].links) = 2
          /\ news_links[part[1][a].links[1]].status = "failed"

Running(e) == {k \in DOMAIN part[e] : part[e][k].state = "running"}

PoolBounded ==
    /\ Cardinality(Running(1)) <= MAX_CONCURRENT_DOMAINS
    /\ Cardinality(InFlight(1)) <= MAX_CONCURRENT_DOMAINS

Processed(k) == k \in DOMAIN part[1] /\ part[1][k].state \in {"done", "raised"}

\* C9: at no moment are more than MAX_CONCURRENT_DOMAINS partitions being
\* processed, nor more than that many calls in flight, and every partition
\* submitted is processed in the end.
C9_PoolBoundAndProgress ==
    /\ []PoolBounded
    /\ (inv_pc[1] = "running") ~> (\A k \in DOMAIN part[1] : Processed(k))

\* MAX_CONCURRENT_DOMAINS calls are in flight while a partition waits for a
\* thread.
C9_Witness ==
    /\ Cardinality(InFlight(1)) = MAX_CONCURRENT_DOMAINS
    /\ \E k \in DOMAIN part[1] : part[1][k].state = "queued"

====
